---- MODULE Spec2Model ----
(***************************************************************************)
(* A model of AcceptLanguage (src/Source/AcceptLanguage.ts): the registry  *)
(* of supported BCP47 tags built by languages(), the negotiation done by   *)
(* get()/parse(), and the create() operation of the instances.             *)
(*                                                                         *)
(* Strings are modelled through the operations the code applies to them.   *)
(* A priority list is held as the sequence of its ','-separated ranges,    *)
(* each range as the sequence of its ';'-separated fields, so that         *)
(* split(',') and split(';') are structural.  The whitespace replacement,  *)
(* the '=' split, parseFloat and the bcp47 parser are tables over the      *)
(* texts the model uses.                                                   *)
(***************************************************************************)
EXTENDS Integers, Sequences, FiniteSets, TLC

VARIABLES
    target,      \* the ECMAScript target the TypeScript source is compiled to
    insts,       \* the AcceptLanguage objects, by identity
    configured,  \* history: per object, the list of its last languages() call that returned
    last,        \* the last call made, its outcome, and the objects before it
    inputs       \* the arguments of a one-shot scenario (SpecMatch, SpecOrder)

vars == <<target, insts, configured, last, inputs>>

\* ------------------------------------------------------------------ values

\* JavaScript's null and undefined.  Neither is a text any table below uses.
Null == "<null>"
Undefined == "<undefined>"

\* A number in tenths, or NaN.
Num(n) == [nan |-> FALSE, tenths |-> n]
NaN == [nan |-> TRUE, tenths |-> 0]

\* quality when a range has no parameter (1.0, in tenths)
DefaultQuality == 10

\* ------------------------------------------------------------------ bounds

MaxInstances == 2
MaxLanguages == 2
MaxComponents == 3

InstanceIds == 1..MaxInstances

\* ------------------------------------------------------- the bcp47 parser

LangTag(l, s, r, v, e, p) ==
    [language |-> l, script |-> s, region |-> r, variant |-> v,
     extension |-> e, privateuse |-> p]

Ext(s, subtags) == [singleton |-> s, extension |-> subtags]

\* bcp47.parse on the texts of the model: the langtag of each text the
\* BCP47 grammar accepts.  Absent script and region are null, absent variant,
\* extension and privateuse are empty arrays.  A private-use-only tag parses
\* with no language.  Subtags keep the case they were written in; "valueOf"
\* and "toString" are well-formed 5*8ALPHA languages.
Bcp47Table ==
    [t \in {"en", "en-US", "en-GB", "en-Latn", "en-Latn-US", "en-scouse",
            "en-scouse-fonipa", "en-fonipa", "en-u-ca", "en-u-nu", "en-x-a",
            "en-x-b", "en-US-x-a", "zh", "zh-Hant", "zh-Hans", "zh-Hant-TW",
            "fr", "fr-FR", "de", "x-priv", "valueOf", "toString"} |->
      CASE t = "en" -> LangTag("en", Null, Null, <<>>, <<>>, <<>>)
        [] t = "en-US" -> LangTag("en", Null, "US", <<>>, <<>>, <<>>)
        [] t = "en-GB" -> LangTag("en", Null, "GB", <<>>, <<>>, <<>>)
        [] t = "en-Latn" -> LangTag("en", "Latn", Null, <<>>, <<>>, <<>>)
        [] t = "en-Latn-US" -> LangTag("en", "Latn", "US", <<>>, <<>>, <<>>)
        [] t = "en-scouse" -> LangTag("en", Null, Null, <<"scouse">>, <<>>, <<>>)
        [] t = "en-scouse-fonipa" ->
               LangTag("en", Null, Null, <<"scouse", "fonipa">>, <<>>, <<>>)
        [] t = "en-fonipa" -> LangTag("en", Null, Null, <<"fonipa">>, <<>>, <<>>)
        [] t = "en-u-ca" ->
               LangTag("en", Null, Null, <<>>, <<Ext("u", <<"ca">>)>>, <<>>)
        [] t = "en-u-nu" ->
               LangTag("en", Null, Null, <<>>, <<Ext("u", <<"nu">>)>>, <<>>)
        [] t = "en-x-a" -> LangTag("en", Null, Null, <<>>, <<>>, <<"a">>)
        [] t = "en-x-b" -> LangTag("en", Null, Null, <<>>, <<>>, <<"b">>)
        [] t = "en-US-x-a" -> LangTag("en", Null, "US", <<>>, <<>>, <<"a">>)
        [] t = "zh" -> LangTag("zh", Null, Null, <<>>, <<>>, <<>>)
        [] t = "zh-Hant" -> LangTag("zh", "Hant", Null, <<>>, <<>>, <<>>)
        [] t = "zh-Hans" -> LangTag("zh", "Hans", Null, <<>>, <<>>, <<>>)
        [] t = "zh-Hant-TW" -> LangTag("zh", "Hant", "TW", <<>>, <<>>, <<>>)
        [] t = "fr" -> LangTag("fr", Null, Null, <<>>, <<>>, <<>>)
        [] t = "fr-FR" -> LangTag("fr", Null, "FR", <<>>, <<>>, <<>>)
        [] t = "de" -> LangTag("de", Null, Null, <<>>, <<>>, <<>>)
        [] t = "x-priv" -> LangTag(Null, Null, Null, <<>>, <<>>, <<>>)
        [] t = "valueOf" -> LangTag("valueOf", Null, Null, <<>>, <<>>, <<>>)
        [] t = "toString" -> LangTag("toString", Null, Null, <<>>, <<>>, <<>>)]

\* bcp47.parse(t) is not null
Conforms(t) == t \in DOMAIN Bcp47Table

\* bcp47.parse(t).langtag, for a text that conforms
bcp47parse(t) == Bcp47Table[t]

\* ------------------------------------------------------------ JS objects

\* {} : an object with no own property
EmptyObject == [k \in {} |-> <<>>]

\* The members every object inherits from Object.prototype whose names are
\* well-formed language subtags.
ObjectPrototypeKeys == {"valueOf", "toString"}

\* the property key a value is converted to (null becomes "null")
PropertyKey(v) == IF v = Null THEN "null" ELSE v

\* obj[key]: an own bucket, an inherited function, or undefined
GetProperty(obj, key) ==
    IF PropertyKey(key) \in DOMAIN obj
    THEN [kind |-> "array", items |-> obj[PropertyKey(key)]]
    ELSE IF PropertyKey(key) \in ObjectPrototypeKeys
         THEN [kind |-> "function", items |-> <<>>]
         ELSE [kind |-> "undefined", items |-> <<>>]

\* obj[key] = items
SetProperty(obj, key, items) ==
    [k \in DOMAIN obj \cup {PropertyKey(key)} |->
        IF k = PropertyKey(key) THEN items ELSE obj[k]]

\* ------------------------------------------------------------- instances

\* new AcceptLanguage(): empty registry, null default; the class's own
\* create() ("stub") unless the module's create() replaced it ("factory").
NewAcceptLanguage(createKind) ==
    [allocated |-> TRUE, languageTagsWithValues |-> EmptyObject,
     defaultLanguageTag |-> Null, create |-> createKind]

Unallocated ==
    [allocated |-> FALSE, languageTagsWithValues |-> EmptyObject,
     defaultLanguageTag |-> Null, create |-> "stub"]

\* the object the module exports
Root == 1

\* create() returned null
NullInstance == 0

\* ------------------------------------------------------------ languages()

\* the LanguageTagWithValue stored for a supported tag string
WithValue(languageTagString) ==
    [langtag |-> bcp47parse(languageTagString), value |-> languageTagString]

\* The forEach of languages(), from element k on: the registry as each
\* element leaves it, and the error that ends the loop, if any.  The registry
\* built so far stays when an element throws.
RECURSIVE IndexLanguages(_, _, _)
IndexLanguages(registry, definedLanguages, k) ==
    IF k > Len(definedLanguages)
    THEN [threw |-> "none", registry |-> registry]
    ELSE LET languageTagString == definedLanguages[k] IN
         IF ~Conforms(languageTagString)
         THEN [threw |-> "TypeError: not bcp47 compliant", registry |-> registry]
         ELSE LET language == bcp47parse(languageTagString).language
                  bucket == GetProperty(registry, language)
              IN IF language = Null
                 THEN [threw |-> "TypeError: not supported", registry |-> registry]
                 ELSE IF bucket.kind = "undefined"
                 THEN IndexLanguages(
                          SetProperty(registry, language,
                                      <<WithValue(languageTagString)>>),
                          definedLanguages, k + 1)
                 ELSE IF bucket.kind = "array"
                 THEN IndexLanguages(
                          SetProperty(registry, language,
                                      Append(bucket.items,
                                             WithValue(languageTagString))),
                          definedLanguages, k + 1)
                 \* an inherited function is truthy and has no push
                 ELSE [threw |-> "TypeError: push is not a function",
                       registry |-> registry]

\* ResetRegistry without the assignment of {}: the buckets are added to.
KeepRegistry(registry) == registry

\* The registry the loop starts from: languages() assigns {} first.
ResetRegistry(registry) == EmptyObject

\* LanguagesOutcome with the default assigned before the loop instead of
\* after it: a list that throws leaves its first element as the default.
LanguagesOutcomeEagerDefault(al, definedLanguages) ==
    IF Len(definedLanguages) < 1
    THEN [threw |-> "Error: no languages", al |-> al]
    ELSE LET built == IndexLanguages(ResetRegistry(al.languageTagsWithValues),
                                     definedLanguages, 1)
         IN [threw |-> built.threw,
             al |-> [al EXCEPT !.languageTagsWithValues = built.registry,
                               !.defaultLanguageTag = definedLanguages[1]]]

\* languages(definedLanguages) on object al: the error thrown, if any, and
\* the object afterwards.
LanguagesOutcome(al, definedLanguages) ==
    IF Len(definedLanguages) < 1
    THEN [threw |-> "Error: no languages", al |-> al]
    ELSE LET built == IndexLanguages(ResetRegistry(al.languageTagsWithValues),
                                     definedLanguages, 1)
         IN IF built.threw # "none"
            THEN [threw |-> built.threw,
                  al |-> [al EXCEPT !.languageTagsWithValues = built.registry]]
            ELSE [threw |-> "none",
                  al |-> [al EXCEPT !.languageTagsWithValues = built.registry,
                                    !.defaultLanguageTag = definedLanguages[1]]]

\* ------------------------------------------------ parseAndSortLanguageTags

\* text.replace(/\s+/, '') for the texts that hold whitespace: the text
\* without its first whitespace run.  Every other text holds none.
WhitespaceTable ==
    [t \in {" en-US", " fr-FR", " en", "   ", " q=0.5"} |->
      CASE t = " en-US" -> "en-US"
        [] t = " fr-FR" -> "fr-FR"
        [] t = " en" -> "en"
        [] t = "   " -> ""
        [] t = " q=0.5" -> "q=0.5"]

\* weightedLanguageRange.replace(/\s+/, '').split(';'): the fields of the
\* range, the first of them that holds whitespace without its first run.
RECURSIVE ReplaceWhitespace(_)
ReplaceWhitespace(fields) ==
    IF fields = <<>> THEN <<>>
    ELSE IF Head(fields) \in DOMAIN WhitespaceTable
         THEN <<WhitespaceTable[Head(fields)]>> \o Tail(fields)
         ELSE <<Head(fields)>> \o ReplaceWhitespace(Tail(fields))

\* text.split('=')[1]
AfterEquals(t) ==
    CASE t = "q=0.9" -> "0.9"
      [] t = "q=0.5" -> "0.5"
      [] t = "q=1.0" -> "1.0"
      [] t = "q=bad" -> "bad"
      [] t = "q=" -> ""
      [] t = "level=1" -> "1"
      [] OTHER -> Undefined

\* parseFloat(t), in tenths
parseFloat(t) ==
    CASE t = "0.9" -> Num(9)
      [] t = "0.5" -> Num(5)
      [] t = "1.0" -> Num(10)
      [] t = "1" -> Num(10)
      [] OTHER -> NaN

\* the quality of a range from its fields
QualityOf(components) ==
    IF Len(components) >= 2 /\ components[2] # ""
    THEN parseFloat(AfterEquals(components[2]))
    ELSE Num(DefaultQuality)

\* the map() step: the tag and quality of each range.  index is history (the
\* place of the range in the list); nothing below reads it.
MapRanges(ranges) ==
    [i \in 1..Len(ranges) |->
        LET components == ReplaceWhitespace(ranges[i])
        IN [tag |-> components[1], quality |-> QualityOf(components), index |-> i]]

\* the filter() step: a range with no tag text is dropped
FilterRanges(languageTags) ==
    SelectSeq(languageTags, LAMBDA languageTag : languageTag.tag # "")

\* the comparator: b.quality - a.quality, NaN when either is NaN
CompareQuality(a, b) ==
    IF a.quality.nan \/ b.quality.nan
    THEN NaN
    ELSE Num(b.quality.tenths - a.quality.tenths)

\* comp(...) <= 0, false for NaN
LessOrEqualZero(c) == ~c.nan /\ c.tenths <= 0

\* stable's merge of two neighbouring chunks: the left head goes first when
\* comp(left, right) <= 0, the right head otherwise.
RECURSIVE Merge(_, _)
Merge(left, right) ==
    IF left = <<>> THEN right
    ELSE IF right = <<>> THEN left
    ELSE IF LessOrEqualZero(CompareQuality(Head(left), Head(right)))
         THEN <<Head(left)>> \o Merge(Tail(left), right)
         ELSE <<Head(right)>> \o Merge(left, Tail(right))

Min(a, b) == IF a < b THEN a ELSE b

\* one pass of stable over chunks of size chk, from position l on
RECURSIVE Pass(_, _, _)
Pass(arr, chk, l) ==
    IF l > Len(arr) THEN <<>>
    ELSE Merge(SubSeq(arr, l, Min(l + chk - 1, Len(arr))),
               SubSeq(arr, l + chk, Min(l + 2 * chk - 1, Len(arr))))
         \o Pass(arr, chk, l + 2 * chk)

\* stable(arr, comp): merge sort without recursion, chunks of 1, 2, 4, ...
RECURSIVE StableFrom(_, _)
StableFrom(arr, chk) ==
    IF chk >= Len(arr) THEN arr ELSE StableFrom(Pass(arr, chk, 1), 2 * chk)

stable(arr) == StableFrom(arr, 1)

parseAndSortLanguageTags(ranges) == stable(FilterRanges(MapRanges(ranges)))

\* ---------------------------------------------------------------- parse()

Props == <<"privateuse", "extension", "variant", "region", "script">>

\* !value, for the value of property prop of a langtag: script and region
\* are null when absent; an array is truthy even when empty.
Falsy(prop, value) == prop \in {"region", "script"} /\ value = Null

\* PropRejects without the check for a wider request: a script or region
\* the request does not have is not compared.
PropRejectsWiderPasses(prop, definedLangTag, requestedLangTag) ==
    LET definedValue == definedLangTag[prop]
        requestedValue == requestedLangTag[prop]
    IN IF Falsy(prop, definedValue) THEN FALSE
       ELSE IF Falsy(prop, requestedValue) THEN FALSE
       ELSE IF prop \in {"privateuse", "variant"}
       THEN \E i \in 1..Len(definedValue) :
                i > Len(requestedValue) \/ definedValue[i] # requestedValue[i]
       ELSE IF prop = "extension"
       THEN \E i \in 1..Len(definedValue) :
              \E ei \in 1..Len(definedValue[i].extension) :
                 \/ i > Len(requestedValue)
                 \/ ei > Len(requestedValue[i].extension)
                 \/ definedValue[i].extension[ei] # requestedValue[i].extension[ei]
       ELSE definedValue # requestedValue

\* PropRejects without the element-wise branches: the arrays are compared
\* with !==, which two distinct arrays always satisfy.
PropRejectsByIdentity(prop, definedLangTag, requestedLangTag) ==
    LET definedValue == definedLangTag[prop]
        requestedValue == requestedLangTag[prop]
    IN IF Falsy(prop, definedValue) THEN FALSE
       ELSE IF Falsy(prop, requestedValue) THEN TRUE
       ELSE IF prop \in {"privateuse", "variant", "extension"} THEN TRUE
       ELSE definedValue # requestedValue

\* Whether property prop sends the defined tag to "continue middle".
PropRejects(prop, definedLangTag, requestedLangTag) ==
    LET definedValue == definedLangTag[prop]
        requestedValue == requestedLangTag[prop]
    IN IF Falsy(prop, definedValue) THEN FALSE
       ELSE IF Falsy(prop, requestedValue) THEN TRUE
       ELSE IF prop \in {"privateuse", "variant"}
       THEN \E i \in 1..Len(definedValue) :
                i > Len(requestedValue) \/ definedValue[i] # requestedValue[i]
       ELSE IF prop = "extension"
       THEN \E i \in 1..Len(definedValue) :
              \E ei \in 1..Len(definedValue[i].extension) :
                 \/ i > Len(requestedValue)
                 \/ ei > Len(requestedValue[i].extension)
                 \/ definedValue[i].extension[ei] # requestedValue[i].extension[ei]
       ELSE definedValue # requestedValue

\* the inner loop over Props: the defined tag reaches result.push
IsMatch(definedLangTag, requestedLangTag) ==
    \A p \in 1..Len(Props) : ~PropRejects(Props[p], definedLangTag, requestedLangTag)

\* the loop labelled middle: the defined tags of the bucket that match, in
\* bucket order.  from, quality and position are history.
MatchesInBucket(bucket, languageTag) ==
    LET requestedLangTag == bcp47parse(languageTag.tag)
        hits == {i \in 1..Len(bucket) : IsMatch(bucket[i].langtag, requestedLangTag)}
        Entry(i) == [value |-> bucket[i].value, from |-> languageTag.index,
                     quality |-> languageTag.quality, position |-> i]
        RECURSIVE Collect(_)
        Collect(i) == IF i > Len(bucket) THEN <<>>
                      ELSE (IF i \in hits THEN <<Entry(i)>> ELSE <<>>) \o Collect(i + 1)
    IN Collect(1)

\* The outer loop of parse(), from sorted tag k on.  for...of over the
\* inherited function of a prototype key throws under an ES2015 target and
\* runs no iteration (the function's length is 0) under ES5.
RECURSIVE ParseLoop(_, _, _, _, _)
ParseLoop(tgt, registry, languageTags, k, result) ==
    IF k > Len(languageTags)
    THEN [threw |-> "none", result |-> result]
    ELSE LET languageTag == languageTags[k] IN
         IF ~Conforms(languageTag.tag)
         THEN ParseLoop(tgt, registry, languageTags, k + 1, result)
         ELSE LET bucket == GetProperty(registry, bcp47parse(languageTag.tag).language)
              IN IF bucket.kind = "undefined"
                 THEN ParseLoop(tgt, registry, languageTags, k + 1, result)
                 ELSE IF bucket.kind = "function" /\ tgt = "ES2015"
                 THEN [threw |-> "TypeError: not iterable", result |-> result]
                 ELSE ParseLoop(tgt, registry, languageTags, k + 1,
                                result \o MatchesInBucket(bucket.items, languageTag))

\* a priority list: null, undefined, or a string as its ranges
NullList == [kind |-> "null", ranges |-> <<>>]
UndefinedList == [kind |-> "undefined", ranges |-> <<>>]
String(ranges) == [kind |-> "string", ranges |-> ranges]
EmptyString == String(<< <<"">> >>)

\* !languagePriorityList
FalsyList(languagePriorityList) ==
    languagePriorityList.kind # "string" \/ languagePriorityList = EmptyString

Values(entries) == [i \in 1..Len(entries) |-> entries[i].value]

\* the list parse() falls back to
DefaultResult(al) == <<al.defaultLanguageTag>>

\* parse(languagePriorityList) on object al: the error thrown, if any, the
\* list returned, and (history) where each element of it came from.
ParseOutcome(tgt, al, languagePriorityList) ==
    IF FalsyList(languagePriorityList)
    THEN [threw |-> "none", result |-> DefaultResult(al), matches |-> <<>>]
    ELSE LET loop == ParseLoop(tgt, al.languageTagsWithValues,
                               parseAndSortLanguageTags(languagePriorityList.ranges),
                               1, <<>>)
         IN IF loop.threw # "none"
            THEN [threw |-> loop.threw, result |-> <<>>, matches |-> <<>>]
            ELSE [threw |-> "none",
                  result |-> IF Len(loop.result) > 0 THEN Values(loop.result)
                             ELSE DefaultResult(al),
                  matches |-> loop.result]

\* ----------------------------------------------------------------- actions

NoCall ==
    [op |-> "none", inst |-> Root, definedLanguages |-> <<>>,
     languagePriorityList |-> NullList, threw |-> "none", parsed |-> <<>>,
     matches |-> <<>>, result |-> Null, returned |-> NullInstance,
     before |-> insts, repeat |-> FALSE]

NoInputs == [definedLanguages |-> <<>>, languagePriorityList |-> NullList]

\* al.languages(definedLanguages) on object i
Languages(i, definedLanguages) ==
    /\ insts[i].allocated
    /\ LET outcome == LanguagesOutcome(insts[i], definedLanguages)
       IN /\ insts' = [insts EXCEPT ![i] = outcome.al]
          /\ configured' = IF outcome.threw = "none"
                           THEN [configured EXCEPT ![i] = <<definedLanguages>>]
                           ELSE configured
          /\ last' = [NoCall EXCEPT !.op = "languages", !.inst = i,
                                    !.definedLanguages = definedLanguages,
                                    !.threw = outcome.threw]
    /\ UNCHANGED <<target, inputs>>

\* Get that keeps what it negotiated as the object's default.
GetRemembering(i, languagePriorityList) ==
    /\ insts[i].allocated
    /\ LET outcome == ParseOutcome(target, insts[i], languagePriorityList)
           result == IF outcome.threw = "none" THEN outcome.result[1] ELSE Null
       IN /\ last' = [NoCall EXCEPT
                        !.op = "get", !.inst = i,
                        !.languagePriorityList = languagePriorityList,
                        !.threw = outcome.threw,
                        !.parsed = outcome.result,
                        !.matches = outcome.matches,
                        !.result = result,
                        !.repeat = /\ last.op = "get"
                                   /\ last.inst = i
                                   /\ last.languagePriorityList = languagePriorityList]
          /\ insts' = [insts EXCEPT ![i].defaultLanguageTag = result]
    /\ UNCHANGED <<target, configured, inputs>>

\* al.get(languagePriorityList) on object i: parse(...)[0]
Get(i, languagePriorityList) ==
    /\ insts[i].allocated
    /\ LET outcome == ParseOutcome(target, insts[i], languagePriorityList)
       IN last' = [NoCall EXCEPT
                     !.op = "get", !.inst = i,
                     !.languagePriorityList = languagePriorityList,
                     !.threw = outcome.threw,
                     !.parsed = outcome.result,
                     !.matches = outcome.matches,
                     !.result = IF outcome.threw = "none"
                                THEN outcome.result[1] ELSE Null,
                     !.repeat = /\ last.op = "get"
                                /\ last.inst = i
                                /\ last.languagePriorityList = languagePriorityList]
    /\ UNCHANGED <<target, insts, configured, inputs>>

\* the first identity not yet in use
FreeId == CHOOSE j \in InstanceIds :
              /\ ~insts[j].allocated
              /\ \A k \in InstanceIds : ~insts[k].allocated => j <= k

\* al.create() on object i: the module's create() gives its object a
\* create that returns new AcceptLanguage(); the class's own returns null.
Create(i) ==
    /\ insts[i].allocated
    /\ IF insts[i].create = "factory"
       THEN /\ \E j \in InstanceIds : ~insts[j].allocated
            /\ insts' = [insts EXCEPT ![FreeId] = NewAcceptLanguage("stub")]
            /\ last' = [NoCall EXCEPT !.op = "create", !.inst = i,
                                      !.returned = FreeId]
       ELSE /\ insts' = insts
            /\ last' = [NoCall EXCEPT !.op = "create", !.inst = i,
                                      !.returned = NullInstance]
    /\ UNCHANGED <<target, configured, inputs>>

\* ---------------------------------------------------------- specifications

Targets == {"ES5", "ES2015"}

\* Sequences over S of length lo..hi
SeqsOf(S, lo, hi) == UNION {[1..n -> S] : n \in lo..hi}

\* After the module is loaded: one exported object, made by create().
InitObjects ==
    /\ target \in Targets
    /\ insts = [i \in InstanceIds |->
                   IF i = Root THEN NewAcceptLanguage("factory") ELSE Unallocated]
    /\ configured = [i \in InstanceIds |-> <<>>]
    /\ last = [NoCall EXCEPT !.before = insts]

\* The life of the objects: any call, on any object, at any time.
LifecycleLists ==
    {<<>>, <<"en">>, <<"fr-FR", "en-US">>, <<"en-GB", "!!">>, <<"fr-FR", "x-priv">>}

LifecycleRequests ==
    {NullList, UndefinedList, EmptyString, String(<< <<"fr-FR", "q=0.5">>, <<"en">> >>)}

Init == InitObjects /\ inputs = NoInputs

Next ==
    \E i \in InstanceIds :
        \/ \E definedLanguages \in LifecycleLists : Languages(i, definedLanguages)
        \/ \E languagePriorityList \in LifecycleRequests : Get(i, languagePriorityList)
        \/ Create(i)

Spec == Init /\ [][Next]_vars

\* One configuration, then one negotiation, on the exported object.
NextScenario ==
    \/ last.op = "none" /\ Languages(Root, inputs.definedLanguages)
    \/ last.op = "languages" /\ Get(Root, inputs.languagePriorityList)

\* Every supported list over tags of each subtag category, and every request
\* of one range.
MatchTags ==
    {"en", "en-US", "en-GB", "en-Latn", "en-scouse", "en-u-ca", "en-x-a",
     "zh-Hant", "fr-FR", "x-priv", "!!", "valueOf"}

MatchTexts == DOMAIN Bcp47Table \cup {"!!", " en", "   ", ""}

MatchRequests ==
    {NullList, UndefinedList}
    \cup {String(<< <<t>> >>) : t \in MatchTexts}
    \cup {String(<< <<"en-US">>, <<"valueOf">> >>),
          String(<< <<"zh-Hant-TW", "q=0.5">>, <<" en">> >>)}

InitMatch ==
    /\ InitObjects
    /\ inputs \in [definedLanguages : SeqsOf(MatchTags, 0, MaxLanguages),
                   languagePriorityList : MatchRequests]

SpecMatch == InitMatch /\ [][NextScenario]_vars

\* Few supported tags, and every request of up to MaxComponents weighted ranges.
OrderTags == {"en", "en-US", "fr-FR"}

OrderRanges ==
    {<<t>> : t \in {"en-US", "fr-FR"}}
    \cup {<<t, p>> : t \in {"en-US", "fr-FR"}, p \in {"q=0.9", "q=0.5", "q=bad"}}
    \cup {<<"en">>, <<"">>, <<" fr-FR", "q=0.5">>, <<"de", "q">>}

InitOrder ==
    /\ InitObjects
    /\ inputs \in [definedLanguages : SeqsOf(OrderTags, 0, MaxLanguages),
                   languagePriorityList :
                       {String(r) : r \in SeqsOf(OrderRanges, 1, MaxComponents)}]

SpecOrder == InitOrder /\ [][NextScenario]_vars

\* ------------------------------------------------------------------ claims

\* the object the last call was made on, now and before the call
Callee == insts[last.inst]
CalleeBefore == last.before[last.inst]

\* the tag text of range number k of the last request
RequestedText(k) == ReplaceWhitespace(last.languagePriorityList.ranges[k])[1]

\* the langtag has something in the subtag category
Specifies(langtag, category) ==
    IF category \in {"script", "region"}
    THEN langtag[category] # Null
    ELSE Len(langtag[category]) > 0

LanguageOnly(langtag) == \A p \in 1..Len(Props) : ~Specifies(langtag, Props[p])

\* range k of the last request produced the defined tag at place pos of its bucket
Produced(k, pos) ==
    \E m \in 1..Len(last.matches) :
        last.matches[m].from = k /\ last.matches[m].position = pos

\* the registry languages(B) is to build: one entry per element, by language
ElementsOf(language, definedLanguages) ==
    SelectSeq(definedLanguages, LAMBDA t : bcp47parse(t).language = language)

IsIndexOf(registry, definedLanguages) ==
    /\ DOMAIN registry =
         {bcp47parse(definedLanguages[k]).language : k \in 1..Len(definedLanguages)}
    /\ \A language \in DOMAIN registry :
         LET elements == ElementsOf(language, definedLanguages)
         IN /\ Len(registry[language]) = Len(elements)
            /\ \A k \in 1..Len(elements) :
                 /\ registry[language][k].value = elements[k]
                 /\ registry[language][k].langtag = bcp47parse(elements[k])

\* C1: get of a null, undefined or empty request returns the first element
\* of the list of the object's most recent languages call that returned
\* normally (null when there was none), and parse returns just that.
C1_DefaultIsFirstConfigured ==
    (last.op = "get" /\ FalsyList(last.languagePriorityList)) =>
        LET expected == IF configured[last.inst] = <<>> THEN Null
                        ELSE configured[last.inst][1][1]
        IN /\ last.threw = "none"
           /\ last.parsed = <<expected>>
           /\ last.result = expected

\* C1's case: the default is asked for after a later languages call failed
\* and left a registry without the default's language.
C1_Witness ==
    /\ last.op = "get"
    /\ FalsyList(last.languagePriorityList)
    /\ configured[last.inst] # <<>>
    /\ last.result = configured[last.inst][1][1]
    /\ bcp47parse(last.result).language \notin DOMAIN Callee.languageTagsWithValues

\* C2: in the list parse returns, no match of a lower-quality range precedes
\* a match of a higher-quality one, matches of equal-quality ranges are in
\* the order the ranges were written, matches of one range are in bucket
\* order, and get returns the first of them.
C2_QualityOrder ==
    last.op = "get" =>
        /\ \A a, b \in 1..Len(last.matches) :
             a < b =>
               LET x == last.matches[a]
                   y == last.matches[b]
               IN /\ ~(~x.quality.nan /\ ~y.quality.nan
                        /\ y.quality.tenths > x.quality.tenths)
                  /\ (~x.quality.nan /\ ~y.quality.nan
                        /\ x.quality.tenths = y.quality.tenths) => x.from <= y.from
                  /\ x.from = y.from => x.position < y.position
        /\ Len(last.matches) > 0 => last.result = last.matches[1].value

\* C2 with every quality of the request a number.
C2_OrderWhenNumeric ==
    (\A k \in 1..Len(last.languagePriorityList.ranges) :
        ~QualityOf(ReplaceWhitespace(last.languagePriorityList.ranges[k])).nan)
    => C2_QualityOrder

\* C3: a defined tag that has a script, a region, a variant, an extension or
\* a private-use subtag is not a match of a requested range of the same
\* language that has nothing in that category.
C3_TooSpecificIsNoMatch ==
    last.op = "get" =>
        \A k \in 1..Len(last.languagePriorityList.ranges) :
            Conforms(RequestedText(k)) =>
                LET requested == bcp47parse(RequestedText(k))
                    bucket == GetProperty(Callee.languageTagsWithValues,
                                          requested.language)
                IN \A pos \in 1..Len(bucket.items) :
                     (\E p \in 1..Len(Props) :
                         /\ Specifies(bucket.items[pos].langtag, Props[p])
                         /\ ~Specifies(requested, Props[p]))
                     => ~Produced(k, pos)

\* C3's case: a bucket holds a tag too specific for the request beside one
\* that matches it.
C3_Witness ==
    /\ last.op = "get"
    /\ Len(last.matches) > 0
    /\ \E k \in 1..Len(last.languagePriorityList.ranges) :
         /\ Conforms(RequestedText(k))
         /\ LET requested == bcp47parse(RequestedText(k))
                bucket == GetProperty(Callee.languageTagsWithValues,
                                      requested.language)
            IN \E pos \in 1..Len(bucket.items) :
                 /\ Specifies(bucket.items[pos].langtag, "region")
                 /\ ~Specifies(requested, "region")
                 /\ ~Produced(k, pos)

\* C4: a defined tag that is a primary language only is a match of every
\* parseable requested range of that language, whatever else the range has.
C4_LanguageOnlyAlwaysMatches ==
    (last.op = "get" /\ last.threw = "none"
       /\ ~FalsyList(last.languagePriorityList)) =>
        \A k \in 1..Len(last.languagePriorityList.ranges) :
            Conforms(RequestedText(k)) =>
                LET requested == bcp47parse(RequestedText(k))
                    bucket == GetProperty(Callee.languageTagsWithValues,
                                          requested.language)
                IN \A pos \in 1..Len(bucket.items) :
                     LanguageOnly(bucket.items[pos].langtag) => Produced(k, pos)

\* C4's case: a language-only tag matched a range that has a region and a
\* private-use subtag.
C4_Witness ==
    /\ last.op = "get"
    /\ last.threw = "none"
    /\ ~FalsyList(last.languagePriorityList)
    /\ \E k \in 1..Len(last.languagePriorityList.ranges) :
         /\ Conforms(RequestedText(k))
         /\ Specifies(bcp47parse(RequestedText(k)), "region")
         /\ Specifies(bcp47parse(RequestedText(k)), "privateuse")
         /\ \E m \in 1..Len(last.matches) :
              /\ last.matches[m].from = k
              /\ LanguageOnly(bcp47parse(last.matches[m].value))

\* C5: get and parse raise no error for any request, parse returns a
\* non-empty list, and that list is the default alone when nothing matched.
C5_NeverRaises ==
    last.op = "get" =>
        /\ last.threw = "none"
        /\ Len(last.parsed) > 0
        /\ last.matches = <<>> => last.parsed = <<Callee.defaultLanguageTag>>

\* what the parser and the list length say about a list of supported tags
ListIsRejected(definedLanguages) ==
    \/ Len(definedLanguages) < 1
    \/ \E k \in 1..Len(definedLanguages) :
         \/ ~Conforms(definedLanguages[k])
         \/ bcp47parse(definedLanguages[k]).language = Null

\* C6: languages raises exactly when the list is empty, or an element is
\* rejected by the parser, or an element has no primary language.
C6_RaisesExactlyWhen ==
    last.op = "languages" =>
        (last.threw # "none" <=> ListIsRejected(last.definedLanguages))

\* C7: after a languages(B) that returned, the registry holds one entry per
\* element of B, by language and in B's order, and nothing else; while the
\* registry is that of the configured list, parse returns elements of it only.
C7_FullReplacement ==
    /\ (last.op = "languages" /\ last.threw = "none") =>
          /\ IsIndexOf(Callee.languageTagsWithValues, last.definedLanguages)
          /\ Callee.defaultLanguageTag = last.definedLanguages[1]
    /\ (/\ last.op = "get"
        /\ last.threw = "none"
        /\ configured[last.inst] # <<>>
        /\ IsIndexOf(Callee.languageTagsWithValues, configured[last.inst][1])) =>
          \A m \in 1..Len(last.parsed) :
              \E k \in 1..Len(configured[last.inst][1]) :
                  last.parsed[m] = configured[last.inst][1][k]

\* C7's case: languages returned on an object whose registry held a
\* language the new list does not have.
C7_Witness ==
    /\ last.op = "languages"
    /\ last.threw = "none"
    /\ \E language \in DOMAIN CalleeBefore.languageTagsWithValues :
         language \notin DOMAIN Callee.languageTagsWithValues

\* C8: create on any object returns a fresh unconfigured object, and a
\* languages call changes no other object.
C8_CreateAndIndependence ==
    /\ last.op = "create" =>
          /\ last.returned # NullInstance
          /\ ~last.before[last.returned].allocated
          /\ insts[last.returned].languageTagsWithValues = EmptyObject
          /\ insts[last.returned].defaultLanguageTag = Null
    /\ last.op = "languages" =>
          \A j \in InstanceIds : j # last.inst => insts[j] = last.before[j]

\* the second half of C8 alone
C8_Independence ==
    last.op \in {"languages", "get"} =>
        \A j \in InstanceIds : j # last.inst => insts[j] = last.before[j]

\* C9: a languages call that raises leaves the registry and the default as
\* they were before it.
C9_FailureLeavesNothing ==
    (last.op = "languages" /\ last.threw # "none") => Callee = CalleeBefore

\* C10: get and parse change no object, and a get repeated with the same
\* request, nothing in between, returns what the first returned.
C10_GetReadsOnly ==
    [][last'.op = "get" =>
         /\ insts' = insts
         /\ last'.repeat => /\ last'.parsed = last.parsed
                            /\ last'.threw = last.threw
                            /\ last'.result = last.result]_vars

\* C10's case: a get was repeated and returned a match.
C10_Witness ==
    /\ last.op = "get"
    /\ last.repeat
    /\ Len(last.matches) > 0
    /\ insts = last.before

====
